---- MODULE Spec2Model ----
(***************************************************************************)
(* Blocked reductions of dask/array/reductions.py.                         *)
(*                                                                         *)
(* An in-memory block (numpy ndarray) is a record                          *)
(*     [shape |-> <<n0, ...>>, dtype |-> "i1", data |-> <<v, ...>>]        *)
(* holding its values in row-major (C) order; indices are 0-based tuples.  *)
(* A partitioned (dask) array is a                                         *)
(* record [name, blockdims, dask] where dask maps a key <<name, i, j, ...>>*)
(* to the value its task evaluates to (the executor is deterministic, so   *)
(* a task is identified with its value).  Axis numbers are 0-based as in   *)
(* the source; position k of a TLA+ tuple holds axis k-1.                  *)
(***************************************************************************)
EXTENDS Integers, Sequences, FiniteSets, TLC

VARIABLES a, names, out

vars == <<a, names, out>>

(***************************************************************************)
(* Bounds of the model.                                                    *)
(***************************************************************************)
\* largest number of elements of the input array
MaxSize == 4
\* largest extent of an axis of a two-axis input array
MaxSide == 3
\* a call starts only while the global name generator has handed out fewer
\* names than this
MaxNames == 1

(***************************************************************************)
(* Tuples and index arithmetic.                                            *)
(***************************************************************************)
\* Python: i in t
In(i, t) == \E k \in 1..Len(t) : t[k] = i

\* Python: tuple(range(n))
range(n) == [k \in 1..n |-> k - 1]

\* Python: tuple(x for x in t if keep(x)), for the positions in the set keep
RECURSIVE Filter(_, _, _)
Filter(t, keep, k) ==
    IF k > Len(t) THEN <<>>
    ELSE (IF k \in keep THEN <<t[k]>> ELSE <<>>) \o Filter(t, keep, k + 1)

\* all index tuples of an array of the given shape
RECURSIVE Indices(_)
Indices(shape) ==
    IF shape = <<>> THEN {<<>>}
    ELSE {<<i>> \o r : i \in 0..(Head(shape) - 1), r \in Indices(Tail(shape))}

RECURSIVE Flatten(_)
Flatten(ss) == IF ss = <<>> THEN <<>> ELSE Head(ss) \o Flatten(Tail(ss))

\* the index tuples of a shape in row-major (C) order
RECURSIVE IndexSeq(_)
IndexSeq(shape) ==
    IF shape = <<>> THEN << <<>> >>
    ELSE LET rest == IndexSeq(Tail(shape))
         IN  Flatten([i \in 1..Head(shape) |->
                        [j \in 1..Len(rest) |-> <<i - 1>> \o rest[j]]])

\* the row-major rank of index idx in an array of the given shape
RECURSIVE FlatFrom(_, _, _, _)
FlatFrom(idx, shape, k, acc) ==
    IF k > Len(shape) THEN acc
    ELSE FlatFrom(idx, shape, k + 1, acc * shape[k] + idx[k])

\* x[idx]
At(x, idx) == x.data[FlatFrom(idx, x.shape, 1, 0) + 1]

RECURSIVE SeqSum(_)
SeqSum(s) == IF s = <<>> THEN 0 ELSE Head(s) + SeqSum(Tail(s))

RECURSIVE Product(_)
Product(s) == IF s = <<>> THEN 1 ELSE Head(s) * Product(Tail(s))

\* the sum of the first k entries of s
Prefix(s, k) == SeqSum(SubSeq(s, 1, k))

RECURSIVE SeqMin(_)
SeqMin(s) ==
    IF Len(s) = 1 THEN s[1]
    ELSE LET m == SeqMin(Tail(s)) IN IF s[1] <= m THEN s[1] ELSE m

RECURSIVE SeqMax(_)
SeqMax(s) ==
    IF Len(s) = 1 THEN s[1]
    ELSE LET m == SeqMax(Tail(s)) IN IF s[1] >= m THEN s[1] ELSE m

Abs(v) == IF v < 0 THEN 0 - v ELSE v

RECURSIVE Gcd(_, _)
Gcd(x, y) == IF y = 0 THEN x ELSE Gcd(y, x % y)

\* An IEEE double holding the quotient num / den of two machine numbers: the
\* quotient is one correctly rounded value fixed by the exact ratio, so it is
\* kept as the fraction in lowest terms; a zero divisor gives inf, -inf or nan
\* (den = 0 with the sign of num).
Frac(num, den) ==
    IF den = 0
    THEN [num |-> IF num > 0 THEN 1 ELSE IF num < 0 THEN 0 - 1 ELSE 0, den |-> 0]
    ELSE LET g == Gcd(Abs(num), Abs(den))
             sg == IF den < 0 THEN 0 - 1 ELSE 1
         IN  [num |-> sg * (num \div g), den |-> sg * (den \div g)]

(***************************************************************************)
(* Element types.  Fixed-width integers wrap modulo 2^w; sums of narrow    *)
(* integers accumulate in the platform integer ("i8"), which no value of   *)
(* the bounded model approaches.                                           *)
(***************************************************************************)
Bits(dtype) == CASE dtype = "i1" -> 8 [] dtype = "i2" -> 16

Wrap(v, dtype) ==
    IF dtype \in {"i1", "i2"}
    THEN LET m == 2 ^ Bits(dtype)
             h == 2 ^ (Bits(dtype) - 1)
         IN  ((v + h) % m) - h
    ELSE v

\* v ** n computed in the element type, one multiplication at a time
RECURSIVE PowW(_, _, _)
PowW(v, n, dtype) ==
    IF n = 0 THEN 1 ELSE Wrap(v * PowW(v, n - 1, dtype), dtype)

\* the type numpy gives the sum of an array
SumType(dtype) == IF dtype \in {"bool", "i1", "i2"} THEN "i8" ELSE dtype

(***************************************************************************)
(* numpy kernels over one in-memory block.                                 *)
(***************************************************************************)
\* shape after reducing the axes in `axis` with keepdims=True
KeepShape(shape, axis) ==
    [k \in 1..Len(shape) |-> IF In(k - 1, axis) THEN 1 ELSE shape[k]]

\* the values of x that collapse onto output position o (o has 0 at every
\* reduced axis), in row-major order
Lane(x, axis, o) ==
    LET red == [k \in 1..Len(x.shape) |->
                    IF In(k - 1, axis) THEN x.shape[k] ELSE 1]
        rs  == IndexSeq(red)
    IN  [j \in 1..Len(rs) |->
            At(x, [k \in 1..Len(x.shape) |-> o[k] + rs[j][k]])] \o <<>>

\* positions (1-based) of the axes that are kept
Kept(nd, axis) == {k \in 1..nd : ~In(k - 1, axis)}

\* drop the (size 1) reduced axes of y: the keepdims=False form; the
\* row-major order of the values is unchanged
Squeeze(y, axis) ==
    [shape |-> Filter(y.shape, Kept(Len(y.shape), axis), 1),
     dtype |-> y.dtype,
     data  |-> y.data]

\* the lowest position of the value v in lane s (0-based): numpy's
\* first-occurrence rule for argmin and argmax
FirstIndex(s, v) == (CHOOSE k \in 1..Len(s) :
                        s[k] = v /\ \A j \in 1..(k - 1) : s[j] # v) - 1

Field(s, f) == [k \in 1..Len(s) |-> s[k][f]]

Square(s, dtype) == [k \in 1..Len(s) |-> PowW(s[k], 2, dtype)]

Ones(s) == [k \in 1..Len(s) |-> 1]

\* one output value of kernel fn from the lane that collapses onto it
KernelValue(fn, lane, dtype) ==
    CASE fn.f = "sum"    -> SeqSum(lane)
      [] fn.f = "min"    -> SeqMin(lane)
      [] fn.f = "max"    -> SeqMax(lane)
      [] fn.f = "any"    -> IF \E k \in 1..Len(lane) : lane[k] # 0 THEN 1 ELSE 0
      [] fn.f = "all"    -> IF \A k \in 1..Len(lane) : lane[k] # 0 THEN 1 ELSE 0
      [] fn.f = "argmin" -> FirstIndex(lane, SeqMin(lane))
      [] fn.f = "argmax" -> FirstIndex(lane, SeqMax(lane))
      [] fn.f = "mean.chunk" ->
            [total |-> SeqSum(lane), n |-> SeqSum(Ones(lane))]
      [] fn.f = "mean.agg" ->
            Frac(SeqSum(Field(lane, "total")), SeqSum(Field(lane, "n")))
      [] fn.f = "var.chunk" ->
            [x  |-> SeqSum(lane),
             x2 |-> SeqSum(Square(lane, dtype)),
             n  |-> SeqSum(Ones(lane))]
      [] fn.f = "var.agg" ->
            LET x  == SeqSum(Field(lane, "x"))
                x2 == SeqSum(Field(lane, "x2"))
                n  == SeqSum(Field(lane, "n"))
            IN  IF fn.ddof # 0
                THEN Frac(x2 * n - x * x, n * (n - fn.ddof))
                ELSE Frac(x2 * n - x * x, n * n)

KernelType(fn, dtype) ==
    CASE fn.f = "sum" -> SumType(dtype)
      [] fn.f \in {"min", "max"} -> dtype
      [] fn.f \in {"any", "all"} -> "bool"
      [] fn.f \in {"argmin", "argmax"} -> "i8"
      [] fn.f = "mean.chunk" -> "rec_mean"
      [] fn.f = "var.chunk" -> "rec_var"
      [] fn.f \in {"mean.agg", "var.agg"} -> "f8"

\* fn(x, axis=axis, keepdims=keepdims)
Kernel(fn, x, axis, keepdims) ==
    LET sh == KeepShape(x.shape, axis)
        os == IndexSeq(sh)
        y  == [shape |-> sh, dtype |-> KernelType(fn, x.dtype),
               data  |-> [j \in 1..Len(os) |->
                            KernelValue(fn, Lane(x, axis, os[j]), x.dtype)]
                         \o <<>>]
    IN  IF keepdims THEN y ELSE Squeeze(y, axis)

(***************************************************************************)
(* Collaborators of dask/array/core.py: block layout, concatenation, key   *)
(* rewriting.                                                              *)
(***************************************************************************)
\* number of blocks along every axis
numblocks(blockdims) == [k \in 1..Len(blockdims) |-> Len(blockdims[k])]

\* Array._keys(), flattened: the keys of an array in row-major block order
Keys(name, blockdims) ==
    LET bs == IndexSeq(numblocks(blockdims))
    IN  [j \in 1..Len(bs) |-> <<name>> \o bs[j]]

\* the block holding global position g along an axis cut into `extents`
BlockOf(extents, g) ==
    CHOOSE i \in 1..Len(extents) :
        Prefix(extents, i - 1) <= g /\ g < Prefix(extents, i)

\* _concatenate2: the blocks B[d], d ranging over Indices(nb), joined along
\* every axis where nb holds more than one block
Concatenate(B, nb) ==
    LET nd   == Len(nb)
        unit(k, i) == [j \in 1..nd |-> IF j = k THEN i ELSE 0]
        ext  == [k \in 1..nd |->
                   [i \in 1..nb[k] |-> B[unit(k, i - 1)].shape[k]] \o <<>>]
                \o <<>>
        sh   == [k \in 1..nd |-> SeqSum(ext[k])] \o <<>>
        is   == IndexSeq(sh)
        blk(idx) == [k \in 1..nd |-> BlockOf(ext[k], idx[k]) - 1]
        loc(idx, b) == [k \in 1..nd |-> idx[k] - Prefix(ext[k], b[k])]
        val(idx, b) == At(B[b], loc(idx, b))
    IN  [shape |-> sh, dtype |-> B[[j \in 1..nd |-> 0]].dtype,
         data  |-> [j \in 1..Len(is) |-> val(is[j], blk(is[j]))] \o <<>>]

\* insert_many(seq, where, val): val at every position listed in `where`,
\* the items of seq, in order, at the others
RECURSIVE insert_loop(_, _, _, _, _)
insert_loop(seq, where, val, i, n) ==
    IF i = n THEN <<>>
    ELSE IF In(i, where)
         THEN <<val>> \o insert_loop(seq, where, val, i + 1, n)
         ELSE <<Head(seq)>> \o insert_loop(Tail(seq), where, val, i + 1, n)

insert_many(seq, where, val) ==
    insert_loop(seq, where, val, 0, Len(where) + Len(seq))

\* atop with output indices a sub-tuple of the input's: the blocks of x that
\* feed output block ob, indexed by their block position along the dropped
\* (dummy) axes
AtopGroup(x, axis, ob) ==
    LET nb   == numblocks(x.blockdims)
        nd   == Len(nb)
        base == insert_many(ob, axis, 0)
        nbd  == [k \in 1..nd |-> IF In(k - 1, axis) THEN nb[k] ELSE 1]
    IN  [d \in Indices(nbd) |->
            x.dask[<<x.name>> \o [k \in 1..nd |-> base[k] + d[k]]]] @@ <<>>

\* the logical (unpartitioned) array a partitioned array stands for
Assemble(x) ==
    LET nb == numblocks(x.blockdims)
    IN  Concatenate([b \in Indices(nb) |-> x.dask[<<x.name>> \o b]] @@ <<>>, nb)

(***************************************************************************)
(* reduction: the two-phase plan.                                          *)
(***************************************************************************)
\* axis=None -> all axes; a single integer -> a 1-tuple.  An axis argument is
\* [kind, v]: kind is its Python type and v the tuple of the integers it holds.
NormAxis(axis, nd) ==
    CASE axis.kind = "None" -> range(nd)
      [] axis.kind = "int"  -> <<axis.v[1]>>
      [] OTHER              -> axis.v

\* tmp = atop(chunk2, next(names), inds, x, inds)
ChunkStage(x, chunk, axis, name) ==
    [name      |-> name,
     blockdims |-> x.blockdims,
     dask      |-> [key \in {<<name>> \o b : b \in Indices(numblocks(x.blockdims))} |->
                       Kernel(chunk, x.dask[<<x.name>> \o Tail(key)], axis, TRUE)]
                   @@ <<>>]

\* inds2 = tuple(i for i in inds if i not in axis)
inds2(ndim, axis) == Filter(range(ndim), Kept(ndim, axis), 1)

\* result = atop(compose(aggregate2, curry(_concatenate2, axes=axis)), ...)
AggregateStage(tmp, aggregate, axis, keepdims, name) ==
    LET nd   == Len(tmp.blockdims)
        i2   == inds2(nd, axis)
        bd   == [j \in 1..Len(i2) |-> tmp.blockdims[i2[j] + 1]]
        nbd  == [k \in 1..nd |->
                   IF In(k - 1, axis) THEN Len(tmp.blockdims[k]) ELSE 1]
        own  == [key \in {<<name>> \o b : b \in Indices(numblocks(bd))} |->
                   Kernel(aggregate,
                          Concatenate(AtopGroup(tmp, axis, Tail(key)), nbd),
                          axis, keepdims)]
    IN  [name      |-> name,
         blockdims |-> bd,
         dask      |-> own @@ tmp.dask]

\* dsk[k2] = dsk.pop(k) with k2 = (k[0],) + insert_many(k[1:], axis, 0)
RekeyOne(dsk, k, axis) ==
    LET k2   == <<k[1]>> \o insert_many(Tail(k), axis, 0)
        v    == dsk[k]
        rest == [x \in (DOMAIN dsk) \ {k} |-> dsk[x]]
    IN  (k2 :> v) @@ rest

\* for k in flatten(result._keys()): ...
RECURSIVE RekeyAll(_, _, _)
RekeyAll(dsk, ks, axis) ==
    IF ks = <<>> THEN dsk
    ELSE RekeyAll(RekeyOne(dsk, Head(ks), axis), Tail(ks), axis)

\* a faulty keepdims rewrite: the keys are rewritten, the block extents are not
blockdims_not_rewritten(blockdims, axis) == blockdims

\* blockdims = insert_many(result.blockdims, axis, [1])
KeepdimsBlockdims(blockdims, axis) == insert_many(blockdims, axis, <<1>>)

\* reduction(x, chunk, aggregate, axis, keepdims), the name generator having
\* handed out nm names so far
reduction(x, chunk, aggregate, axis0, keepdims, nm) ==
    LET axis   == NormAxis(axis0, Len(x.blockdims))
        tmp    == ChunkStage(x, chunk, axis, nm + 1)
        result == AggregateStage(tmp, aggregate, axis, keepdims, nm + 2)
    IN  IF keepdims
        THEN [name      |-> result.name,
              blockdims |-> KeepdimsBlockdims(result.blockdims, axis),
              dask      |-> RekeyAll(result.dask,
                                     Keys(result.name, result.blockdims), axis)]
        ELSE result

\* a faulty sum: the partial sums of the blocks are merged by min
sum_merged_by_min(x, axis, keepdims, nm) ==
    reduction(x, [f |-> "sum"], [f |-> "min"], axis, keepdims, nm)

\* the reductions that use one kernel for both phases
sum(x, axis, keepdims, nm) ==
    reduction(x, [f |-> "sum"], [f |-> "sum"], axis, keepdims, nm)

min(x, axis, keepdims, nm) ==
    reduction(x, [f |-> "min"], [f |-> "min"], axis, keepdims, nm)

max(x, axis, keepdims, nm) ==
    reduction(x, [f |-> "max"], [f |-> "max"], axis, keepdims, nm)

any(x, axis, keepdims, nm) ==
    reduction(x, [f |-> "any"], [f |-> "any"], axis, keepdims, nm)

all(x, axis, keepdims, nm) ==
    reduction(x, [f |-> "all"], [f |-> "all"], axis, keepdims, nm)

\* mean: per-block records {total, n}, merged by field-wise sums
mean(x, axis, keepdims, nm) ==
    reduction(x, [f |-> "mean.chunk"], [f |-> "mean.agg"], axis, keepdims, nm)

\* var: per-block records {x, x2, n}, merged by field-wise sums
var(x, axis, keepdims, ddof, nm) ==
    reduction(x, [f |-> "var.chunk"], [f |-> "var.agg", ddof |-> ddof],
              axis, keepdims, nm)

(***************************************************************************)
(* vnorm.                                                                  *)
(***************************************************************************)
\* one value of abs(a), a ** n or s ** (1. / n); the last is the real n-th
\* root of s, kept as the pair it is determined by
ElemValue(fn, v, dt) ==
    CASE fn.f = "abs"  -> Wrap(Abs(v), dt)
      [] fn.f = "pow"  -> PowW(v, fn.n, IF dt = "bool" THEN "i1" ELSE dt)
      [] fn.f = "root" -> [root |-> fn.n, of |-> v]

ElemType(fn, dt) ==
    CASE fn.f = "abs"  -> dt
      [] fn.f = "pow"  -> IF dt = "bool" THEN "i1" ELSE dt
      [] fn.f = "root" -> "f8"

\* fn applied to every element of one block
ElemBlock(fn, x) ==
    [shape |-> x.shape, dtype |-> ElemType(fn, x.dtype),
     data  |-> [j \in 1..Len(x.data) |-> ElemValue(fn, x.data[j], x.dtype)]
               \o <<>>]

\* elemwise(fn, x): abs(a), a ** ord and s ** (1. / ord) on a partitioned array
elemwise(fn, x, name) ==
    [name      |-> name,
     blockdims |-> x.blockdims,
     dask      |-> [key \in {<<name>> \o b : b \in Indices(numblocks(x.blockdims))} |->
                       ElemBlock(fn, x.dask[<<x.name>> \o Tail(key)])]
                   @@ <<>>]

\* an array together with the tasks of the arrays it was built from
WithTasks(x, dsk) == [x EXCEPT !.dask = @ @@ dsk]

\* a faulty default: only ord=None is replaced by 2, 'fro' is left as it is
NormOrd_none_only(ord) ==
    IF ord.kind = "None" THEN [kind |-> "int", v |-> 2] ELSE ord

\* if ord is None or ord == 'fro': ord = 2
NormOrd(ord) ==
    IF ord.kind \in {"None", "fro"} THEN [kind |-> "int", v |-> 2] ELSE ord

\* a faulty parity test: 0 is not taken for an even ord
IsEvenOrd_nonzero(ord) == ord.v % 2 = 0 /\ ord.v # 0

\* elif ord % 2 == 0
IsEvenOrd(ord) == ord.v % 2 = 0

\* sum(...) ** (1. / ord): the division fails for ord = 0, after sum(...) has
\* been planned (planned: the array sum(...) built before the failure)
RootOf(s, pre, ord, branch, nm) ==
    IF ord.v = 0
    THEN [branch |-> branch, err |-> "ZeroDivisionError", names |-> nm,
          planned |-> [name |-> s.name, blockdims |-> s.blockdims],
          dask |-> s.dask @@ pre]
    ELSE [branch |-> branch, err |-> "none", names |-> nm + 1]
         @@ WithTasks(elemwise([f |-> "root", n |-> ord.v], s, nm + 1),
                      s.dask @@ pre)

\* vnorm(a, ord, axis, keepdims), the name generator having handed out nm
\* names so far: the array returned or the error raised, the branch taken,
\* the names used up and the tasks created
vnorm(x, ord0, axis, keepdims, nm) ==
    LET ord == NormOrd(ord0)
        ab  == elemwise([f |-> "abs"], x, nm + 1)
    IN  CASE ord.kind = "inf" ->
               [branch |-> "inf", err |-> "none", names |-> nm + 3]
               @@ WithTasks(max(ab, axis, keepdims, nm + 1), ab.dask)
          [] ord.kind = "-inf" ->
               [branch |-> "-inf", err |-> "none", names |-> nm + 3]
               @@ WithTasks(min(ab, axis, keepdims, nm + 1), ab.dask)
          [] ord.kind = "int" /\ ord.v = 1 ->
               [branch |-> "one", err |-> "none", names |-> nm + 3]
               @@ WithTasks(sum(ab, axis, keepdims, nm + 1), ab.dask)
          [] ord.kind = "int" /\ ord.v # 1 /\ IsEvenOrd(ord) ->
               LET pw == elemwise([f |-> "pow", n |-> ord.v], x, nm + 1)
               IN  RootOf(sum(pw, axis, keepdims, nm + 1), pw.dask,
                          ord, "even", nm + 3)
          [] OTHER ->
               LET pw == elemwise([f |-> "pow", n |-> ord.v], ab, nm + 2)
               IN  RootOf(sum(pw, axis, keepdims, nm + 2), pw.dask @@ ab.dask,
                          ord, "other", nm + 4)

(***************************************************************************)
(* argmin / argmax.                                                        *)
(***************************************************************************)
\* isinstance(axis, int)
isinstance_int(axis) == axis.kind = "int"

\* argreduce(x): (func(x, axis=axis), argfunc(x, axis=axis))
argreduce(x, func, argfunc, axis) ==
    <<Kernel(func, x, <<axis>>, FALSE), Kernel(argfunc, x, <<axis>>, FALSE)>>

\* a2 = elemwise(argreduce, a)
ArgChunkStage(x, func, argfunc, axis, name) ==
    [name      |-> name,
     blockdims |-> x.blockdims,
     dask      |-> [key \in {<<name>> \o b : b \in Indices(numblocks(x.blockdims))} |->
                       argreduce(x.dask[<<x.name>> \o Tail(key)], func, argfunc, axis)]
                   @@ <<>>]

\* np.array(blocks): equal-shaped blocks stacked along a new leading axis
Stack(blocks) ==
    [shape |-> <<Len(blocks)>> \o blocks[1].shape,
     dtype |-> blocks[1].dtype,
     data  |-> Flatten([i \in 1..Len(blocks) |-> blocks[i].data])]

\* np.add.accumulate(lst): the running sums of lst
accumulate(lst) == [i \in 1..Len(lst) |-> Prefix(lst, i)] \o <<>>

\* a faulty offset table: the running sums of the extents themselves, so that
\* every block is shifted by its own extent too
offsets_inclusive(dims) == accumulate(dims)

\* offsets = np.add.accumulate([0] + list(dims)[:-1])
offsets(dims) == accumulate(<<0>> \o SubSeq(dims, 1, Len(dims) - 1))

\* argmins + offsets, the offsets reshaped to (len(offsets), 1, ..., 1)
AddOffsets(argmins, offs) ==
    LET is == IndexSeq(argmins.shape)
    IN  [argmins EXCEPT !.data =
            [j \in 1..Len(is) |-> argmins.data[j] + offs[is[j][1] + 1]] \o <<>>]

\* np.choose(args, choices): choices[args[p]][p] at every position p
choose(args, choices) ==
    LET is == IndexSeq(args.shape)
    IN  [shape |-> args.shape, dtype |-> choices.dtype,
         data  |-> [j \in 1..Len(is) |->
                      At(choices, <<args.data[j]>> \o is[j])] \o <<>>]

\* a faulty merge: the local indices of the selected blocks are returned
\* without their offsets
arg_aggregate_local(func, argfunc, dims, pairs) ==
    LET mins    == Stack([i \in 1..Len(pairs) |-> pairs[i][1]])
        argmins == Stack([i \in 1..Len(pairs) |-> pairs[i][2]])
        args    == Kernel(argfunc, mins, <<0>>, FALSE)
    IN  choose(args, argmins)

\* a faulty merge: among blocks holding equal extrema the last one is selected
arg_aggregate_last(func, argfunc, dims, pairs) ==
    LET n       == Len(pairs)
        mins    == Stack([i \in 1..n |-> pairs[n + 1 - i][1]])
        argmins == Stack([i \in 1..n |-> pairs[i][2]])
        rev     == Kernel(argfunc, mins, <<0>>, FALSE)
        args    == [rev EXCEPT !.data =
                      [j \in 1..Len(rev.data) |-> (n - 1) - rev.data[j]] \o <<>>]
    IN  choose(args, AddOffsets(argmins, offsets(dims)))

\* arg_aggregate(func, argfunc, dims, pairs)
arg_aggregate(func, argfunc, dims, pairs) ==
    LET mins    == Stack([i \in 1..Len(pairs) |-> pairs[i][1]])
        argmins == Stack([i \in 1..Len(pairs) |-> pairs[i][2]])
        args    == Kernel(argfunc, mins, <<0>>, FALSE)
    IN  choose(args, AddOffsets(argmins, offsets(dims)))

\* atop(partial(arg_aggregate, func, argfunc, a.blockdims[axis]), next(names),
\*      [i for i in range(a.ndim) if i != axis], a2, list(range(a.ndim)))
ArgAggregateStage(a2, func, argfunc, axis, name) ==
    LET nd   == Len(a2.blockdims)
        i2   == inds2(nd, <<axis>>)
        bd   == [j \in 1..Len(i2) |-> a2.blockdims[i2[j] + 1]]
        dims == a2.blockdims[axis + 1]
        pairs(ob) ==
            LET g == AtopGroup(a2, <<axis>>, ob)
            IN  [i \in 1..Len(dims) |->
                    g[[k \in 1..nd |-> IF k = axis + 1 THEN i - 1 ELSE 0]]]
        own  == [key \in {<<name>> \o b : b \in Indices(numblocks(bd))} |->
                   arg_aggregate(func, argfunc, dims, pairs(Tail(key)))]
    IN  [name      |-> name,
         blockdims |-> bd,
         dask      |-> own @@ a2.dask]

\* a faulty arg_reduction: the per-block stage is planned (along axis 0)
\* before the axis is checked
arg_reduction_late_check(x, func, argfunc, axis, nm) ==
    LET a2 == ArgChunkStage(x, func, argfunc,
                            IF isinstance_int(axis) THEN axis.v[1] ELSE 0, nm + 1)
    IN  IF ~isinstance_int(axis)
        THEN [err |-> "ValueError", names |-> nm + 1, dask |-> a2.dask]
        ELSE [err |-> "none", names |-> nm + 2]
             @@ ArgAggregateStage(a2, func, argfunc, axis.v[1], nm + 2)

\* arg_reduction(a, func, argfunc, axis), the name generator having handed
\* out nm names so far: the array returned or the error raised, the names
\* used up and the tasks created
arg_reduction(x, func, argfunc, axis, nm) ==
    IF ~isinstance_int(axis)
    THEN [err |-> "ValueError", names |-> nm, dask |-> <<>>]
    ELSE LET a2  == ArgChunkStage(x, func, argfunc, axis.v[1], nm + 1)
             res == ArgAggregateStage(a2, func, argfunc, axis.v[1], nm + 2)
         IN  [err |-> "none", names |-> nm + 2] @@ res

argmin(x, axis, nm) ==
    arg_reduction(x, [f |-> "min"], [f |-> "argmin"], axis, nm)

argmax(x, axis, nm) ==
    arg_reduction(x, [f |-> "max"], [f |-> "argmax"], axis, nm)

(***************************************************************************)
(* Inputs: every array of at most MaxSize elements, of one axis or of two   *)
(* axes of extent at most MaxSide, cut into blocks in every possible way.  *)
(***************************************************************************)
Values(dtype) ==
    CASE dtype = "bool" -> {0, 1}
      [] dtype = "i1"   -> {0 - 128, 0 - 3}
      [] dtype = "i2"   -> {0 - 3, 0, 3}

Shapes ==
    {sh \in {<<n>> : n \in 1..MaxSize}
            \cup {<<r, c>> : r \in 1..MaxSide, c \in 1..MaxSide} :
        Product(sh) <= MaxSize}

\* the ways to cut an axis of length n into blocks of positive extent
RECURSIVE Compositions(_)
Compositions(n) ==
    IF n = 0 THEN {<<>>}
    ELSE UNION {{<<e>> \o r : r \in Compositions(n - e)} : e \in 1..n}

RECURSIVE Layouts(_)
Layouts(shape) ==
    IF shape = <<>> THEN {<<>>}
    ELSE {<<c>> \o r : c \in Compositions(Head(shape)), r \in Layouts(Tail(shape))}

\* the block with block index b of the array `data` cut as `blockdims`
Slice(shape, dtype, data, blockdims, b) ==
    LET nd == Len(shape)
        sh == [k \in 1..nd |-> blockdims[k][b[k] + 1]]
        off == [k \in 1..nd |-> Prefix(blockdims[k], b[k])]
        is == IndexSeq(sh)
    IN  [shape |-> sh, dtype |-> dtype,
         data  |-> [j \in 1..Len(is) |->
                      data[[k \in 1..nd |-> is[j][k] + off[k]]]] \o <<>>]

\* the partitioned array named 0 holding `data` cut as `blockdims`
from_array(shape, dtype, data, blockdims) ==
    [name      |-> 0,
     blockdims |-> blockdims,
     dask      |-> [key \in {<<0>> \o b : b \in Indices(numblocks(blockdims))} |->
                       Slice(shape, dtype, data, blockdims, Tail(key))] @@ <<>>]

ndim(x) == Len(x.blockdims)

\* the element type of a partitioned array
dtype(x) == x.dask[<<x.name>> \o [k \in 1..ndim(x) |-> 0]].dtype

\* axis arguments a caller may pass to a reduction
AxisArgs(nd) ==
    {[kind |-> "None", v |-> <<>>]}
    \cup {[kind |-> "int", v |-> <<i>>] : i \in 0..(nd - 1)}
    \cup (IF nd = 2 THEN {[kind |-> "tuple", v |-> <<0, 1>>]} ELSE {})

InitWith(dtypes) ==
    /\ \E sh \in Shapes, dt \in dtypes :
         \E bd \in Layouts(sh), data \in [Indices(sh) -> Values(dt)] :
            a = from_array(sh, dt, data, bd)
    /\ names = 0
    /\ out = [op |-> "none"]

\* the record of a call that returned the partitioned array res
Return(op, axis, keepdims, res) ==
    /\ out' = [op |-> op, axis |-> axis, keepdims |-> keepdims,
               err |-> "none"] @@ res
    /\ UNCHANGED a

(***************************************************************************)
(* sum, min, max, any, all.                                                *)
(***************************************************************************)
CallSum ==
    /\ names < MaxNames
    /\ \E axis \in AxisArgs(ndim(a)), keepdims \in BOOLEAN :
          Return("sum", axis, keepdims, sum(a, axis, keepdims, names))
    /\ names' = names + 2

CallMin ==
    /\ names < MaxNames
    /\ \E axis \in AxisArgs(ndim(a)), keepdims \in BOOLEAN :
          Return("min", axis, keepdims, min(a, axis, keepdims, names))
    /\ names' = names + 2

CallMax ==
    /\ names < MaxNames
    /\ \E axis \in AxisArgs(ndim(a)), keepdims \in BOOLEAN :
          Return("max", axis, keepdims, max(a, axis, keepdims, names))
    /\ names' = names + 2

CallAny ==
    /\ names < MaxNames
    /\ \E axis \in AxisArgs(ndim(a)), keepdims \in BOOLEAN :
          Return("any", axis, keepdims, any(a, axis, keepdims, names))
    /\ names' = names + 2

CallAll ==
    /\ names < MaxNames
    /\ \E axis \in AxisArgs(ndim(a)), keepdims \in BOOLEAN :
          Return("all", axis, keepdims, all(a, axis, keepdims, names))
    /\ names' = names + 2

(***************************************************************************)
(* argmin, argmax.  A call without axis passes the default axis=None.      *)
(***************************************************************************)
\* axis arguments a caller may pass to argmin / argmax: the valid axes, None,
\* a tuple, a float
ArgAxisArgs(nd) ==
    {[kind |-> "int", v |-> <<i>>] : i \in 0..(nd - 1)}
    \cup {[kind |-> "None", v |-> <<>>],
          [kind |-> "tuple", v |-> <<0>>],
          [kind |-> "float", v |-> <<0>>]}

\* the record of a call to argmin / argmax with outcome r
ArgReturn(op, axis, r) ==
    /\ out' = [op |-> op, axis |-> axis] @@ r
    /\ names' = r.names
    /\ UNCHANGED a

CallArgmin ==
    /\ names < MaxNames
    /\ \E axis \in ArgAxisArgs(ndim(a)) :
          ArgReturn("argmin", axis, argmin(a, axis, names))

CallArgmax ==
    /\ names < MaxNames
    /\ \E axis \in ArgAxisArgs(ndim(a)) :
          ArgReturn("argmax", axis, argmax(a, axis, names))

InitArg == InitWith({"bool", "i1"})

NextArg == CallArgmin \/ CallArgmax

SpecArg == InitArg /\ [][NextArg]_vars

(***************************************************************************)
(* vnorm.                                                                  *)
(***************************************************************************)
\* ord arguments a caller may pass: None, 'fro', inf, -inf and small integers
\* (v is the integer, 0 for the others)
OrdArgs ==
    {[kind |-> k, v |-> 0] : k \in {"None", "fro", "inf", "-inf"}}
    \cup {[kind |-> "int", v |-> n] : n \in 0..3}

CallVnorm ==
    /\ names < MaxNames
    /\ \E ord \in OrdArgs, axis \in AxisArgs(ndim(a)), keepdims \in BOOLEAN :
          LET r == vnorm(a, ord, axis, keepdims, names)
          IN  /\ out' = [op |-> "vnorm", ord |-> ord, axis |-> axis,
                         keepdims |-> keepdims] @@ r
              /\ names' = r.names
    /\ UNCHANGED a

InitNorm == InitWith({"i1"})

NextNorm == CallVnorm

SpecNorm == InitNorm /\ [][NextNorm]_vars

InitReduce == InitWith({"bool", "i1"})

(***************************************************************************)
(* mean, var.                                                              *)
(***************************************************************************)
CallMean ==
    /\ names < MaxNames
    /\ \E axis \in AxisArgs(ndim(a)), keepdims \in BOOLEAN :
          Return("mean", axis, keepdims, mean(a, axis, keepdims, names))
    /\ names' = names + 2

CallVar ==
    /\ names < MaxNames
    /\ \E axis \in AxisArgs(ndim(a)), keepdims \in BOOLEAN, ddof \in {0, 1} :
          Return("var", axis, keepdims,
                 [ddof |-> ddof] @@ var(a, axis, keepdims, ddof, names))
    /\ names' = names + 2

InitStat == InitWith({"i1", "i2"})

NextStat == CallMean \/ CallVar

SpecStat == InitStat /\ [][NextStat]_vars

NextReduce == CallSum \/ CallMin \/ CallMax \/ CallAny \/ CallAll

SpecReduce == InitReduce /\ [][NextReduce]_vars

(***************************************************************************)
(* Properties.                                                             *)
(***************************************************************************)
\* the unpartitioned input array
Whole == Assemble(a)

\* the normalised reduced-axis tuple of the recorded call
Axes == NormAxis(out.axis, ndim(a))

SimpleOps == {"sum", "min", "max", "any", "all"}

ArgOps == {"argmin", "argmax"}

\* C1: for every array, every partitioning and every reduced-axis set, the
\* array returned by sum, min, max, any and all (chunk per block with
\* keepdims=True, concatenate, the same kernel again) equals, in shape, type
\* and at every output position, the kernel applied once to the unpartitioned
\* array.
C1_BlockedEqualsSinglePass ==
    out.op \in SimpleOps =>
        Assemble(out) = Kernel([f |-> out.op], Whole, Axes, out.keepdims)

\* a sum down the rows of a 2 x 2 array cut into four blocks
C1_Witness ==
    /\ out.op = "sum"
    /\ a.blockdims = << <<1, 1>>, <<1, 1>> >>
    /\ Whole.data = <<0 - 3, 0 - 128, 0 - 3, 0 - 3>>
    /\ out.axis = [kind |-> "int", v |-> <<0>>]
    /\ ~out.keepdims
    /\ Assemble(out).data = <<0 - 6, 0 - 131>>

\* the keys of the returned array (those that carry its name)
OutKeys(x) == {k \in DOMAIN x.dask : k[1] = x.name}

\* C3: with keepdims=True every output key has block index 0 at each reduced
\* position and the input's block indices, in order, elsewhere, the block
\* extents are [1] at each reduced position and the input's elsewhere, and
\* there are exactly as many output keys as in the keepdims=False result;
\* with keepdims=False the reduced axes are gone from keys and extents.
C3_KeepdimsKeys ==
    out.op \in SimpleOps =>
        LET nd   == ndim(a)
            inB  == Indices(numblocks(a.blockdims))
            keep == Kept(nd, Axes)
            flat == reduction(a, [f |-> out.op], [f |-> out.op],
                              out.axis, FALSE, 0)
        IN  IF out.keepdims
            THEN /\ OutKeys(out) =
                      {<<out.name>> \o
                         [k \in 1..nd |-> IF k \in keep THEN b[k] ELSE 0] :
                       b \in inB}
                 /\ out.blockdims =
                      [k \in 1..nd |->
                         IF k \in keep THEN a.blockdims[k] ELSE <<1>>]
                 /\ Cardinality(OutKeys(out)) = Cardinality(OutKeys(flat))
            ELSE /\ OutKeys(out) =
                      {<<out.name>> \o Filter(b, keep, 1) : b \in inB}
                 /\ out.blockdims = Filter(a.blockdims, keep, 1)

\* keepdims=True over the columns of an array with two blocks along each axis
C3_Witness ==
    /\ out.op = "max"
    /\ out.keepdims
    /\ numblocks(a.blockdims) = <<2, 2>>
    /\ out.axis = [kind |-> "int", v |-> <<1>>]
    /\ OutKeys(out) = {<<out.name, 0, 0>>, <<out.name, 1, 0>>}
    /\ out.blockdims = << <<1, 1>>, <<1>> >>

\* the recorded call is an argmin / argmax that returned an array
ArgDone == out.op \in ArgOps /\ out.err = "none"

\* the extremum the recorded arg-reduction looks for, along its axis
Extremum ==
    Kernel([f |-> IF out.op = "argmin" THEN "min" ELSE "max"],
           Whole, out.axis.v, FALSE)

\* output position p with index i put back at the reduced axis
AlongAxis(p, i) == insert_many(p, out.axis.v, i)

\* C2: the index argmin (argmax) returns at each output position is a global
\* index along the reduced axis of the unpartitioned array, and the value
\* there is the min (max) along that axis at the same output position.
C2_GlobalIndex ==
    ArgDone =>
        LET r == Assemble(out)
        IN  \A p \in Indices(r.shape) :
               /\ At(r, p) \in 0..(Whole.shape[out.axis.v[1] + 1] - 1)
               /\ At(Whole, AlongAxis(p, At(r, p))) = At(Extremum, p)

\* the minimum sits in the second block: its local index 1 becomes 2 + 1
C2_Witness ==
    /\ out.op = "argmin"
    /\ a.blockdims = << <<2, 2>> >>
    /\ Whole.data = <<0 - 3, 0 - 3, 0 - 3, 0 - 128>>
    /\ out.err = "none"
    /\ Assemble(out).data = <<3>>

\* C8: when the extremum is attained more than once along the reduced axis,
\* the index returned is the first occurrence in the unpartitioned array, at
\* every output position.
C8_FirstOccurrence ==
    ArgDone =>
        LET r == Assemble(out)
        IN  \A p \in Indices(r.shape) :
               \A i \in 0..(At(r, p) - 1) :
                  At(Whole, AlongAxis(p, i)) # At(Extremum, p)

\* the maximum is attained in both blocks, and twice in the second
C8_Witness ==
    /\ out.op = "argmax"
    /\ a.blockdims = << <<2, 2>> >>
    /\ Whole.data = <<0 - 128, 0 - 3, 0 - 3, 0 - 3>>
    /\ out.err = "none"
    /\ Assemble(out).data = <<1>>

\* C10: the offset table has one entry per block along the reduced axis,
\* starts at 0 and grows by the extent of each block but the last; with a
\* single block along the axis it is [0] and every merged block equals that
\* block's local arg-result.
C10_OffsetTable ==
    ArgDone =>
        LET axis == out.axis.v[1]
            dims == a.blockdims[axis + 1]
            off  == offsets(dims)
        IN  /\ Len(off) = Len(dims)
            /\ off[1] = 0
            /\ \A i \in 1..(Len(dims) - 1) : off[i + 1] - off[i] = dims[i]
            /\ Len(dims) = 1 =>
                 /\ off = <<0>>
                 /\ \A k \in OutKeys(out) :
                       out.dask[k] =
                         out.dask[<<out.name - 1>>
                                  \o insert_many(Tail(k), <<axis>>, 0)][2]

\* one block along the reduced axis, two along the other
C10_Witness ==
    /\ ArgDone
    /\ a.blockdims = << <<2>>, <<1, 1>> >>
    /\ out.axis.v = <<0>>
    /\ offsets(a.blockdims[1]) = <<0>>
    /\ Cardinality(OutKeys(out)) = 2

\* C4: argmin / argmax called with an axis that is not a single integer
\* (None when the axis is left out) raises ValueError at once: no task is
\* created and no name is drawn from the name generator.
C4_InvalidAxisRejected ==
    [][(out'.op \in ArgOps /\ out'.axis.kind # "int") =>
          /\ out'.err = "ValueError"
          /\ DOMAIN out'.dask = {}
          /\ names' = names]_vars

\* argmin() without axis on a fresh process
C4_Witness ==
    /\ out.op = "argmin"
    /\ out.axis.kind = "None"
    /\ out.err = "ValueError"
    /\ DOMAIN out.dask = {}
    /\ names = 0

\* the per-block partial results of the recorded call, as one partitioned array
Partials == [name |-> out.name - 1, blockdims |-> a.blockdims, dask |-> out.dask]

\* the mathematical squares of the values of a lane
ExactSquares(lane) == [k \in 1..Len(lane) |-> lane[k] * lane[k]]

\* the record of a lane of data taken as one block: element count, sum and
\* (for var) sum of squares
WholeRecord(op, lane) ==
    IF op = "mean"
    THEN [total |-> SeqSum(lane), n |-> Len(lane)]
    ELSE [x |-> SeqSum(lane), x2 |-> SeqSum(ExactSquares(lane)), n |-> Len(lane)]

\* the field-wise sums of a lane of partial-result records
MergedRecord(op, recs) ==
    IF op = "mean"
    THEN [total |-> SeqSum(Field(recs, "total")), n |-> SeqSum(Field(recs, "n"))]
    ELSE [x  |-> SeqSum(Field(recs, "x")),
          x2 |-> SeqSum(Field(recs, "x2")),
          n  |-> SeqSum(Field(recs, "n"))]

\* total / n, and x2 / n - (x / n) ** 2, of a record
RecordResult(op, r) ==
    IF op = "mean" THEN Frac(r.total, r.n)
    ELSE Frac(r.x2 * r.n - r.x * r.x, r.n * r.n)

\* C5: at every output position the field-wise sums over the concatenated
\* per-block records of mean ({n, total}) and var ({x, x2, n}) equal the
\* record of the unpartitioned data of that position taken as one block
\* (n = element count, total / x = sum, x2 = sum of squares), and mean returns
\* total / n and (with ddof = 0) var returns x2 / n - (x / n) ** 2 of it.
C5_RecordsMerge ==
    (out.op \in {"mean", "var"}) =>
        LET parts == Assemble(Partials)
            os    == IndexSeq(KeepShape(Whole.shape, Axes))
            res   == Assemble(out)
        IN  \A j \in 1..Len(os) :
               LET w == WholeRecord(out.op, Lane(Whole, Axes, os[j]))
               IN  /\ MergedRecord(out.op, Lane(parts, Axes, os[j])) = w
                   /\ (out.op = "var" => out.ddof = 0)
                        => res.data[j] = RecordResult(out.op, w)

\* C9: for every block and every reduced-axis set, var's block-local kernel
\* returns n = the element count, x = the sum of the values and x2 = the
\* mathematical sum of their squares (no square wraps in the block's own
\* integer width).
C9_ChunkSumOfSquares ==
    out.op = "var" =>
        \A b \in Indices(numblocks(a.blockdims)) :
           LET blk == a.dask[<<a.name>> \o b]
               rec == out.dask[<<out.name - 1>> \o b]
               os  == IndexSeq(KeepShape(blk.shape, Axes))
           IN  \A j \in 1..Len(os) :
                  rec.data[j] = WholeRecord("var", Lane(blk, Axes, os[j]))

\* abs, ** n and the n-th root applied to a whole in-memory array
AbsOf(x) == ElemBlock([f |-> "abs"], x)

PowOf(x, n) == ElemBlock([f |-> "pow", n |-> n], x)

RootN(x, n) == ElemBlock([f |-> "root", n |-> n], x)

\* sum(x, axis, keepdims) of the recorded call, in one pass over a whole array
SumOf(x) == Kernel([f |-> "sum"], x, Axes, out.keepdims)

\* the recorded vnorm call returned the in-memory array r
Returned(r) == out.err = "none" /\ Assemble(out) = r

\* C6: vnorm dispatches on ord as its table states, for every axis and
\* keepdims: None and 'fro' give what ord=2 gives, +inf max(abs(a)), -inf
\* min(abs(a)), 1 sum(abs(a)), 2 sqrt(sum(a**2)); and for every even integer
\* ord the sum taken without abs, sum(a**ord), equals sum(abs(a)**ord).
C6_NormDispatch ==
    out.op = "vnorm" =>
        LET two == vnorm(a, [kind |-> "int", v |-> 2], out.axis, out.keepdims, 0)
        IN  /\ out.ord.kind \in {"None", "fro"} =>
                 out.err = two.err /\ Assemble(out) = Assemble(two)
            /\ out.ord.kind = "inf" =>
                 Returned(Kernel([f |-> "max"], AbsOf(Whole), Axes, out.keepdims))
            /\ out.ord.kind = "-inf" =>
                 Returned(Kernel([f |-> "min"], AbsOf(Whole), Axes, out.keepdims))
            /\ out.ord = [kind |-> "int", v |-> 1] =>
                 Returned(SumOf(AbsOf(Whole)))
            /\ out.ord = [kind |-> "int", v |-> 2] =>
                 Returned(RootN(SumOf(PowOf(Whole, 2)), 2))
            /\ (out.ord.kind = "int" /\ out.ord.v % 2 = 0) =>
                 /\ SumOf(PowOf(Whole, out.ord.v))
                      = SumOf(PowOf(AbsOf(Whole), out.ord.v))
                 /\ out.err = "none" =>
                      Assemble(out)
                        = RootN(SumOf(PowOf(AbsOf(Whole), out.ord.v)), out.ord.v)

\* ord='fro' over the rows of a 2 x 2 array in four blocks: the square of
\* -128 wraps to 0 in one byte, so the sums are 9 and 9 + 0
C6_Witness ==
    /\ out.op = "vnorm"
    /\ out.ord.kind = "fro"
    /\ a.blockdims = << <<1, 1>>, <<1, 1>> >>
    /\ Whole.data = <<0 - 3, 0 - 3, 0 - 128, 0 - 128>>
    /\ out.axis = [kind |-> "int", v |-> <<0>>]
    /\ ~out.keepdims
    /\ out.err = "none"
    /\ Assemble(out).data = <<[root |-> 2, of |-> 9], [root |-> 2, of |-> 9]>>

\* C7 as stated: vnorm with ord=0 falls into the last (odd / other) branch and
\* returns the value computed from sum(abs(array)**0), without failing.
C7_OrdZeroLastBranch ==
    (out.op = "vnorm" /\ out.ord = [kind |-> "int", v |-> 0]) =>
        /\ out.branch = "other"
        /\ Returned(RootN(SumOf(PowOf(AbsOf(Whole), 0)), 0))

\* C7 amended: vnorm with ord=0 is not specially handled and takes the
\* even-integer branch (0 % 2 == 0); sum(array**0) is planned, then the
\* exponent 1./ord raises ZeroDivisionError, so no value is returned.
C7_OrdZeroEvenBranchFails ==
    (out.op = "vnorm" /\ out.ord = [kind |-> "int", v |-> 0]) =>
        /\ out.branch = "even"
        /\ out.err = "ZeroDivisionError"
        /\ Assemble([name |-> out.planned.name,
                     blockdims |-> out.planned.blockdims,
                     dask |-> out.dask])
             = SumOf(PowOf(Whole, 0))

\* vnorm(a, ord=0) over all axes of an array in two blocks
C7_Witness ==
    /\ out.op = "vnorm"
    /\ out.ord = [kind |-> "int", v |-> 0]
    /\ out.axis.kind = "None"
    /\ a.blockdims = << <<2, 1>> >>
    /\ out.err = "ZeroDivisionError"
    /\ out.branch = "even"
    /\ out.dask[<<out.planned.name>>].data = <<3>>

====
